---- MODULE Spec2Model ----
(***************************************************************************)
(* Model of src/src/components/Frame.tsx: the Frame component, its two     *)
(* mount-time effects, the async fetchNowPlaying callback and the          *)
(* SpotifyCard view.                                                       *)
(*                                                                         *)
(* One page view is modelled.  JavaScript runs each callback to its next   *)
(* await, so every action is one such run: a mount effect, a click on      *)
(* Refresh, or the continuation of fetchNowPlaying after one of its four   *)
(* awaits (fetch currently-playing, response.json(), fetch recently-played,*)
(* recentlyPlayed.json()).  React state set several times in one run is    *)
(* observed with its last value.                                           *)
(*                                                                         *)
(* The address fragment is modelled after query-string decoding, as the    *)
(* list of its (key, value) parameters; <<>> is the empty fragment.        *)
(***************************************************************************)
EXTENDS Integers, Sequences, FiniteSets, TLC

\* ---------------------------------------------------------------- bounds
NumTokens == 2
NumTracks == 2
MaxParams == 2
MaxRefresh == 1

TokenPool == <<"a", "b", "c">>
TrackPool == <<"t1", "t2", "t3">>
Tokens == {TokenPool[k] : k \in 1..NumTokens}
Tracks == {TrackPool[k] : k \in 1..NumTracks}

\* null / undefined / a missing localStorage entry
Null == "null"

\* HTTP statuses the two endpoints may answer with
Statuses == {200, 202, 204, 401, 403, 500}

\* parameters of the address fragment: access_token with a token or an empty
\* value, and the token_type an implicit-grant redirect sends along
Values == Tokens \cup {""}
Params == ({"access_token"} \X Values) \cup {<<"token_type", "Bearer">>}
Fragments == UNION {[1..n -> Params] : n \in 0..MaxParams}

\* invocations of fetchNowPlaying: 1 is the stored-credential effect's, 2 the
\* redirect effect's, 3.. are manual refreshes in click order
StoredInv == 1
RedirectInv == 2
InvIds == 1..(2 + MaxRefresh)
RefreshIds == 3..(2 + MaxRefresh)

VARIABLES
  phase,            \* position of the first render and the mount effects
  isSDKLoaded,      \* useFrameSDK().isSDKLoaded
  currentTrack,     \* useState: SpotifyTrack | null
  isPlaying,        \* useState
  isLoading,        \* useState
  isAuthenticated,  \* useState
  storage,          \* localStorage['spotify_access_token'] or Null
  hash,             \* window.location.hash, as decoded parameters
  invs,             \* per invocation: await it is suspended at, its token const
  nRefresh,         \* clicks on Refresh so far
  nTriggers,        \* calls of fetchNowPlaying so far
  nCpReq,           \* currently-playing requests issued so far
  nRpReq,           \* recently-played requests issued so far
  nErrors           \* console.error calls of the catch block so far

vars == <<phase, isSDKLoaded, currentTrack, isPlaying, isLoading,
          isAuthenticated, storage, hash, invs, nRefresh, nTriggers,
          nCpReq, nRpReq, nErrors>>

\* ------------------------------------------------------- pure helpers
\* JavaScript truthiness of a string-or-null value
Truthy_EmptyIsTrue(v) == v # Null

Truthy(v) == v # Null /\ v # ""

\* Response.ok
IsOk(status) == status >= 200 /\ status <= 299

\* line 150: the "nothing playing" answer
IsNoContent_AnyFailure(status) == status = 204 \/ ~IsOk(status)

IsNoContent(status) == status = 204

\* line 169: the "token expired" answer
IsExpired_AnyClientError(status) == status >= 400 /\ status <= 499

IsExpired(status) == status = 401

\* URLSearchParams.get: value of the first parameter named key, or null
ParamsGet_Last(params, key) ==
  LET idx == {k \in 1..Len(params) : params[k][1] = key}
  IN IF idx = {} THEN Null
     ELSE params[CHOOSE k \in idx : \A j \in idx : j <= k][2]

ParamsGet(params, key) ==
  LET idx == {k \in 1..Len(params) : params[k][1] = key}
  IN IF idx = {} THEN Null
     ELSE params[CHOOSE k \in idx : \A j \in idx : k <= j][2]

\* the guard of line 137
HasToken_NoGuard(token) == TRUE

HasToken(token) == Truthy(token)

\* lines 171-172: the 401 branch
OnExpired_KeepsToken(slot, auth) == [storage |-> slot, isAuthenticated |-> FALSE]

OnExpired(slot, auth) == [storage |-> Null, isAuthenticated |-> FALSE]

\* lines 166-168: the success branch applies the parsed payload
ApplyCurrentlyPlaying_AlwaysPlaying(data) ==
  [currentTrack |-> data.item, isPlaying |-> TRUE]

ApplyCurrentlyPlaying(data) ==
  [currentTrack |-> data.item, isPlaying |-> data.is_playing]

\* lines 160-163: the fallback branch applies the parsed history
ApplyRecentlyPlayed_KeepsPlaying(data, track, playing) ==
  IF data.hasItems /\ Len(data.items) > 0
    THEN [currentTrack |-> data.items[1], isPlaying |-> playing]
    ELSE [currentTrack |-> track, isPlaying |-> playing]

ApplyRecentlyPlayed_ClearsOnEmpty(data, track, playing) ==
  IF data.hasItems /\ Len(data.items) > 0
    THEN [currentTrack |-> data.items[1], isPlaying |-> FALSE]
    ELSE [currentTrack |-> Null, isPlaying |-> FALSE]

ApplyRecentlyPlayed(data, track, playing) ==
  IF data.hasItems /\ Len(data.items) > 0
    THEN [currentTrack |-> data.items[1], isPlaying |-> FALSE]
    ELSE [currentTrack |-> track, isPlaying |-> playing]

\* line 177 (and line 138): isLoading once the run that ends an invocation is over
LoadingAfter_NoFinally(outcome, cur) ==
  IF outcome = "TransientFailure" THEN cur ELSE FALSE

LoadingAfter(outcome, cur) == FALSE

\* payloads of response.json() that parse to an object
CpPayloads == [is_playing : BOOLEAN, item : Tracks \cup {Null}]
\* hasItems = FALSE is a payload without an items property
HistoryLists == {<<>>} \cup {<<t>> : t \in Tracks} \cup {<<t, u>> : t, u \in Tracks}
RpPayloads == {p \in [hasItems : BOOLEAN, items : HistoryLists] :
                 p.hasItems \/ p.items = <<>>}

\* what SpotifyCard / Frame render (lines 196-209, 41-60, 66)
View ==
  IF phase \in {"init", "crashed"} THEN "none"
  ELSE IF ~isSDKLoaded THEN "loading"
  ELSE IF currentTrack = Null THEN "connect"
  ELSE IF isPlaying THEN "nowPlaying" ELSE "lastPlayed"

RefreshEnabled == View \in {"nowPlaying", "lastPlayed"} /\ ~isLoading

InFlight == {i \in InvIds : invs[i].pc \in {"cp", "cpjson", "rp", "rpjson"}}

\* ------------------------------------------------------------- Init
\* status is response.status of the currently-playing answer, 0 before it
NoStatus == 0
IdleInv == [pc |-> "idle", token |-> Null, status |-> NoStatus, outcome |-> "none"]

Init ==
  /\ phase = "init"
  /\ isSDKLoaded = FALSE
  /\ currentTrack = Null
  /\ isPlaying = FALSE
  /\ isLoading = FALSE
  /\ isAuthenticated = FALSE
  /\ storage \in Tokens \cup {Null}
  /\ hash \in Fragments
  /\ invs = [i \in InvIds |-> IdleInv]
  /\ nRefresh = 0
  /\ nTriggers = 0
  /\ nCpReq = 0
  /\ nRpReq = 0
  /\ nErrors = 0

\* ---------------------------------------------------------- actions
\* fetchNowPlaying from its call to its first await (lines 134-148); slot is
\* what localStorage holds when line 136 reads it
InvokeFetch(i, slot) ==
  /\ nTriggers' = nTriggers + 1
  /\ nRpReq' = nRpReq
  /\ nErrors' = nErrors
  /\ IF HasToken(slot)
       THEN /\ isLoading' = TRUE
            /\ invs' = [invs EXCEPT ![i] =
                          [pc |-> "cp", token |-> slot, status |-> NoStatus,
                           outcome |-> "pending"]]
            /\ nCpReq' = nCpReq + 1
       ELSE /\ isLoading' = LoadingAfter("MissingCredential", TRUE)
            /\ invs' = [invs EXCEPT ![i] =
                          [pc |-> "done", token |-> Null, status |-> NoStatus,
                           outcome |-> "MissingCredential"]]
            /\ nCpReq' = nCpReq

\* the end of an invocation: the finally block, then the promise resolves and
\* the token and response consts go out of scope
Finish(i, outcome) ==
  /\ invs' = [invs EXCEPT ![i] = [pc |-> "done", token |-> Null,
                                  status |-> NoStatus, outcome |-> outcome]]
  /\ isLoading' = LoadingAfter(outcome, isLoading)

\* first render, line 124 evaluates [fetchNowPlaying] before the const of line
\* 133 is initialised: a build that keeps const throws a ReferenceError and
\* nothing is mounted; a build that lowers const to var renders
RenderThrows ==
  /\ phase = "init"
  /\ phase' = "crashed"
  /\ UNCHANGED <<isSDKLoaded, currentTrack, isPlaying, isLoading,
                 isAuthenticated, storage, hash, invs, nRefresh, nTriggers,
                 nCpReq, nRpReq, nErrors>>

Render ==
  /\ phase = "init"
  /\ phase' = "rendered"
  /\ UNCHANGED <<isSDKLoaded, currentTrack, isPlaying, isLoading,
                 isAuthenticated, storage, hash, invs, nRefresh, nTriggers,
                 nCpReq, nRpReq, nErrors>>

\* useFrameSDK reports the SDK loaded
SDKLoaded ==
  /\ phase \in {"rendered", "storedChecked", "mounted"}
  /\ ~isSDKLoaded
  /\ isSDKLoaded' = TRUE
  /\ UNCHANGED <<phase, currentTrack, isPlaying, isLoading, isAuthenticated,
                 storage, hash, invs, nRefresh, nTriggers, nCpReq, nRpReq,
                 nErrors>>

\* effect of lines 118-124
StoredCheck ==
  /\ phase = "rendered"
  /\ phase' = "storedChecked"
  /\ IF Truthy(storage)
       THEN /\ isAuthenticated' = TRUE
            /\ InvokeFetch(StoredInv, storage)
       ELSE UNCHANGED <<isAuthenticated, isLoading, invs, nTriggers, nCpReq,
                        nRpReq, nErrors>>
  /\ UNCHANGED <<isSDKLoaded, currentTrack, isPlaying, storage, hash, nRefresh>>

\* effect of lines 182-194, with the fetch started before the token is stored
RedirectCheck_FetchBeforeWrite ==
  /\ phase = "storedChecked"
  /\ phase' = "mounted"
  /\ LET token == IF hash # <<>> THEN ParamsGet(hash, "access_token") ELSE Null
     IN IF Truthy(token)
          THEN /\ storage' = token
               /\ isAuthenticated' = TRUE
               /\ hash' = <<>>
               /\ InvokeFetch(RedirectInv, storage)
          ELSE UNCHANGED <<storage, isAuthenticated, hash, isLoading, invs,
                           nTriggers, nCpReq, nRpReq, nErrors>>
  /\ UNCHANGED <<isSDKLoaded, currentTrack, isPlaying, nRefresh>>

\* effect of lines 182-194
RedirectCheck ==
  /\ phase = "storedChecked"
  /\ phase' = "mounted"
  /\ LET token == IF hash # <<>> THEN ParamsGet(hash, "access_token") ELSE Null
     IN IF Truthy(token)
          THEN /\ storage' = token
               /\ isAuthenticated' = TRUE
               /\ hash' = <<>>
               /\ InvokeFetch(RedirectInv, token)
          ELSE UNCHANGED <<storage, isAuthenticated, hash, isLoading, invs,
                           nTriggers, nCpReq, nRpReq, nErrors>>
  /\ UNCHANGED <<isSDKLoaded, currentTrack, isPlaying, nRefresh>>

\* click on the Refresh button (lines 88-95): onRefresh = fetchNowPlaying
Refresh ==
  /\ phase = "mounted"
  /\ RefreshEnabled
  /\ nRefresh < MaxRefresh
  /\ nRefresh' = nRefresh + 1
  /\ InvokeFetch(3 + nRefresh, storage)
  /\ UNCHANGED <<phase, isSDKLoaded, currentTrack, isPlaying, isAuthenticated,
                 storage, hash>>

\* the currently-playing request is answered (lines 144-173)
CpResponse(i, status) ==
  /\ phase = "mounted"
  /\ invs[i].pc = "cp"
  /\ IF IsNoContent(status)
       THEN \* line 152: the recently-played request, bearing the same const
            /\ invs' = [invs EXCEPT ![i].pc = "rp", ![i].status = status]
            /\ nRpReq' = nRpReq + 1
            /\ UNCHANGED <<isLoading, storage, isAuthenticated>>
       ELSE IF IsOk(status)
       THEN \* line 166: await response.json()
            /\ invs' = [invs EXCEPT ![i].pc = "cpjson", ![i].status = status]
            /\ UNCHANGED <<isLoading, storage, isAuthenticated, nRpReq>>
       ELSE IF IsExpired(status)
       THEN /\ storage' = OnExpired(storage, isAuthenticated).storage
            /\ isAuthenticated' = OnExpired(storage, isAuthenticated).isAuthenticated
            /\ Finish(i, "Expired")
            /\ UNCHANGED nRpReq
       ELSE /\ Finish(i, "OtherStatus")
            /\ UNCHANGED <<storage, isAuthenticated, nRpReq>>
  /\ UNCHANGED <<phase, isSDKLoaded, currentTrack, isPlaying, hash, nRefresh,
                 nTriggers, nCpReq, nErrors>>

\* a catch block that issues the currently-playing request again
Throws_Retries(i, at) ==
  /\ phase = "mounted"
  /\ invs[i].pc = at
  /\ nErrors' = nErrors + 1
  /\ IF at = "cp" /\ nCpReq < 4
       THEN /\ nCpReq' = nCpReq + 1
            /\ UNCHANGED <<invs, isLoading>>
       ELSE /\ Finish(i, "TransientFailure")
            /\ UNCHANGED nCpReq
  /\ UNCHANGED <<phase, isSDKLoaded, currentTrack, isPlaying, isAuthenticated,
                 storage, hash, nRefresh, nTriggers, nRpReq>>

\* an awaited promise rejects, or the statement after it throws: catch block
\* (lines 174-175), then finally
Throws(i, at) ==
  /\ phase = "mounted"
  /\ invs[i].pc = at
  /\ nErrors' = nErrors + 1
  /\ Finish(i, "TransientFailure")
  /\ UNCHANGED <<phase, isSDKLoaded, currentTrack, isPlaying, isAuthenticated,
                 storage, hash, nRefresh, nTriggers, nCpReq, nRpReq>>

CpThrows(i) == Throws(i, "cp")
CpJsonThrows(i) == Throws(i, "cpjson")
RpThrows(i) == Throws(i, "rp")
RpJsonThrows(i) == Throws(i, "rpjson")

\* response.json() of the currently-playing answer resolves (lines 166-168)
CpJson(i, data) ==
  /\ phase = "mounted"
  /\ invs[i].pc = "cpjson"
  /\ currentTrack' = ApplyCurrentlyPlaying(data).currentTrack
  /\ isPlaying' = ApplyCurrentlyPlaying(data).isPlaying
  /\ Finish(i, "Playing")
  /\ UNCHANGED <<phase, isSDKLoaded, isAuthenticated, storage, hash, nRefresh,
                 nTriggers, nCpReq, nRpReq, nErrors>>

\* the recently-played request is answered (lines 152-158)
RpResponse_ExpiresOn401(i, status) ==
  /\ phase = "mounted"
  /\ invs[i].pc = "rp"
  /\ IF IsOk(status)
       THEN /\ invs' = [invs EXCEPT ![i].pc = "rpjson"]
            /\ UNCHANGED <<isLoading, storage, isAuthenticated>>
       ELSE IF IsExpired(status)
       THEN /\ storage' = OnExpired(storage, isAuthenticated).storage
            /\ isAuthenticated' = OnExpired(storage, isAuthenticated).isAuthenticated
            /\ Finish(i, "Expired")
       ELSE /\ Finish(i, "HistoryNotOk")
            /\ UNCHANGED <<storage, isAuthenticated>>
  /\ UNCHANGED <<phase, isSDKLoaded, currentTrack, isPlaying, hash, nRefresh,
                 nTriggers, nCpReq, nRpReq, nErrors>>

RpResponse(i, status) ==
  /\ phase = "mounted"
  /\ invs[i].pc = "rp"
  /\ IF IsOk(status)
       THEN /\ invs' = [invs EXCEPT ![i].pc = "rpjson"]
            /\ UNCHANGED isLoading
       ELSE Finish(i, "HistoryNotOk")
  /\ UNCHANGED <<phase, isSDKLoaded, currentTrack, isPlaying, isAuthenticated,
                 storage, hash, nRefresh, nTriggers, nCpReq, nRpReq, nErrors>>

\* recentlyPlayed.json() resolves (lines 159-163)
RpJson(i, data) ==
  /\ phase = "mounted"
  /\ invs[i].pc = "rpjson"
  /\ currentTrack' = ApplyRecentlyPlayed(data, currentTrack, isPlaying).currentTrack
  /\ isPlaying' = ApplyRecentlyPlayed(data, currentTrack, isPlaying).isPlaying
  /\ Finish(i, IF data.hasItems /\ Len(data.items) > 0
                 THEN "RecentlyPlayed" ELSE "Empty")
  /\ UNCHANGED <<phase, isSDKLoaded, isAuthenticated, storage, hash, nRefresh,
                 nTriggers, nCpReq, nRpReq, nErrors>>

\* any continuation of invocation i
Continue(i) ==
  \/ \E status \in Statuses : CpResponse(i, status)
  \/ CpThrows(i)
  \/ \E data \in CpPayloads : CpJson(i, data)
  \/ CpJsonThrows(i)
  \/ \E status \in Statuses : RpResponse(i, status)
  \/ RpThrows(i)
  \/ \E data \in RpPayloads : RpJson(i, data)
  \/ RpJsonThrows(i)

\* the last continuation of an invocation as a function on the view state it
\* finds: what the response it ends on makes lines 158-173 write
NoCp == [is_playing |-> FALSE, item |-> Null]
NoRp == [hasItems |-> FALSE, items |-> <<>>]
Events ==
  {[kind |-> "playing", cp |-> d, rp |-> NoRp] : d \in CpPayloads}
    \cup {[kind |-> "history", cp |-> NoCp, rp |-> d] : d \in RpPayloads}
    \cup {[kind |-> k, cp |-> NoCp, rp |-> NoRp] : k \in {"expired", "none"}}

SessionRec ==
  [currentTrack |-> currentTrack, isPlaying |-> isPlaying,
   isAuthenticated |-> isAuthenticated, storage |-> storage]

After(v, e) ==
  CASE e.kind = "playing" ->
         [v EXCEPT !.currentTrack = ApplyCurrentlyPlaying(e.cp).currentTrack,
                   !.isPlaying = ApplyCurrentlyPlaying(e.cp).isPlaying]
    [] e.kind = "history" ->
         [v EXCEPT !.currentTrack =
                     ApplyRecentlyPlayed(e.rp, v.currentTrack, v.isPlaying).currentTrack,
                   !.isPlaying =
                     ApplyRecentlyPlayed(e.rp, v.currentTrack, v.isPlaying).isPlaying]
    [] e.kind = "expired" ->
         [v EXCEPT !.storage = OnExpired(v.storage, v.isAuthenticated).storage,
                   !.isAuthenticated =
                     OnExpired(v.storage, v.isAuthenticated).isAuthenticated]
    [] OTHER -> v

Next ==
  \/ RenderThrows
  \/ Render
  \/ SDKLoaded
  \/ StoredCheck
  \/ RedirectCheck
  \/ Refresh
  \/ \E i \in InvIds : Continue(i)

Spec == Init /\ [][Next]_vars

\* React runs the mount effects after the first render, and every issued
\* request and body read eventually resolves or rejects
FairSpec ==
  /\ Spec
  /\ WF_vars(StoredCheck)
  /\ WF_vars(RedirectCheck)
  /\ \A i \in InvIds : WF_vars(Continue(i))

TypeOK ==
  /\ phase \in {"init", "crashed", "rendered", "storedChecked", "mounted"}
  /\ isSDKLoaded \in BOOLEAN
  /\ currentTrack \in Tracks \cup {Null}
  /\ isPlaying \in BOOLEAN
  /\ isLoading \in BOOLEAN
  /\ isAuthenticated \in BOOLEAN
  /\ storage \in Tokens \cup {Null}
  /\ hash \in Fragments
  /\ nRefresh \in 0..MaxRefresh

\* ------------------------------------------------------------ claims
Playback == <<currentTrack, isPlaying>>
Session == <<currentTrack, isPlaying, isAuthenticated, storage>>
NoHistory(data) == ~(data.hasItems /\ Len(data.items) > 0)

\* C1: whenever the currently-playing request of an invocation is answered
\* 401, the credential slot is empty afterwards, isAuthenticated is false and
\* track and isPlaying are what they were before the answer was handled.
C1_ExpiredClearsCredential ==
  [][\A i \in InvIds : CpResponse(i, 401) =>
        /\ storage' = Null
        /\ isAuthenticated' = FALSE
        /\ Playback' = Playback]_vars

\* the redirect effect wrote a token, the request bearing it was answered 401,
\* and a track was on display
C1_Witness ==
  /\ invs[RedirectInv].outcome = "Expired"
  /\ storage = Null
  /\ ~isAuthenticated
  /\ currentTrack # Null

\* C2 (as stated): a 200 payload sets isPlaying = true and track = item, for
\* every value of the payload's is_playing.
C2_AlwaysPlaying ==
  [][\A i \in InvIds : \A data \in CpPayloads : CpJson(i, data) =>
        /\ isPlaying' = TRUE
        /\ currentTrack' = data.item]_vars

\* C2 (amended): a 200 payload sets isPlaying = the payload's is_playing and
\* track = the payload's item.
C2_AppliesPayload ==
  [][\A i \in InvIds : \A data \in CpPayloads : CpJson(i, data) =>
        /\ isPlaying' = data.is_playing
        /\ currentTrack' = data.item]_vars

\* a single invocation ended in the success branch with a paused item
C2_Witness ==
  /\ invs[StoredInv].outcome = "Playing"
  /\ \A i \in InvIds \ {StoredInv} : invs[i].pc = "idle"
  /\ currentTrack # Null
  /\ ~isPlaying

\* C3: a 200 payload whose item is null emits no update: track and isPlaying
\* keep the values they had.
C3_NullItemNoUpdate ==
  [][\A i \in InvIds : \A data \in CpPayloads :
        CpJson(i, data) /\ data.item = Null => Playback' = Playback]_vars

\* C4: isLoading is true in every state in which some invocation has started
\* and not yet resolved.
C4_LoadingWhileInFlight == InFlight # {} => isLoading

\* C5: isLoading is false whenever no invocation is in flight, and, every
\* request eventually answering, whenever invocations are in flight a state
\* follows in which all of them have resolved and isLoading is false.
C5_LoadingReset ==
  /\ [](InFlight = {} => ~isLoading)
  /\ (InFlight # {}) ~> (InFlight = {} /\ ~isLoading)

\* three invocations ended on three different exit paths, one of them the
\* catch block; nothing is in flight and the flag is down
C5_Witness ==
  /\ InFlight = {}
  /\ ~isLoading
  /\ \E i, j, k \in InvIds :
       /\ invs[i].outcome = "TransientFailure"
       /\ invs[j].outcome = "Expired"
       /\ invs[k].outcome \in {"Playing", "RecentlyPlayed"}

\* C6: after a 401 to the currently-playing request has been handled the
\* presentation shows the connect prompt, whatever was displayed before.
C6_ConnectAfterExpiry ==
  [][\A i \in InvIds : CpResponse(i, 401) /\ isSDKLoaded =>
        View' = "connect"]_vars

\* C7: 204, then a history with at least one item: track = the first item's
\* track and isPlaying = false, whatever isPlaying was.
C7_RecentlyPlayed ==
  [][\A i \in InvIds : \A data \in RpPayloads :
        RpJson(i, data) /\ data.hasItems /\ Len(data.items) > 0 =>
          /\ currentTrack' = data.items[1]
          /\ isPlaying' = FALSE]_vars

\* a refresh fell back to the history after the first fetch had found an item
C7_Witness ==
  /\ invs[StoredInv].outcome = "Playing"
  /\ invs[RedirectInv].pc = "idle"
  /\ invs[3].outcome = "RecentlyPlayed"
  /\ currentTrack # Null
  /\ ~isPlaying

\* C8: 204, then a history that reports nothing: no step of the invocation
\* after its start changes track, isPlaying, isAuthenticated or the credential,
\* so any number of such invocations leaves them the same.
C8_EmptyNoUpdate ==
  [][\A i \in InvIds :
        \/ CpResponse(i, 204)
        \/ \E status \in Statuses : IsOk(status) /\ RpResponse(i, status)
        \/ \E data \in RpPayloads : NoHistory(data) /\ RpJson(i, data)
        => Session' = Session]_vars

\* two invocations found nothing while a track was on display
C8_Witness ==
  /\ currentTrack # Null
  /\ \E i, j \in InvIds :
       i # j /\ invs[i].outcome = "Empty" /\ invs[j].outcome = "Empty"

\* the fragment's access_token parameter (its first, as a query string is
\* read) has the non-empty value T
FragmentCarries(fragment, T) ==
  /\ T # ""
  /\ \E k \in 1..Len(fragment) :
       /\ fragment[k] = <<"access_token", T>>
       /\ \A j \in 1..(k - 1) : fragment[j][1] # "access_token"

\* C9: when the redirect effect runs on a fragment carrying access_token=T,
\* the slot then holds T, isAuthenticated is true, the fragment is empty and a
\* currently-playing request bearing T has been issued.
C9_RedirectStoresToken ==
  [][RedirectCheck => \A T \in Values : FragmentCarries(hash, T) =>
        /\ storage' = T
        /\ isAuthenticated' = TRUE
        /\ hash' = <<>>
        /\ invs'[RedirectInv] = [pc |-> "cp", token |-> T, status |-> NoStatus,
                                 outcome |-> "pending"]
        /\ nCpReq' = nCpReq + 1]_vars

\* the redirect token replaced a different stored one and both fetches run
C9_Witness ==
  /\ phase = "mounted"
  /\ invs[StoredInv].pc = "cp"
  /\ invs[RedirectInv].pc = "cp"
  /\ invs[RedirectInv].token # invs[StoredInv].token
  /\ storage = invs[RedirectInv].token
  /\ isAuthenticated
  /\ hash = <<>>

\* C10: with no credential in the slot a manual refresh issues no request,
\* logs no error and leaves track, isPlaying, isAuthenticated and the slot as
\* they were.
C10_RefreshWithoutCredential ==
  [][Refresh /\ storage = Null =>
        /\ nCpReq' = nCpReq
        /\ nRpReq' = nRpReq
        /\ nErrors' = nErrors
        /\ InFlight' = InFlight
        /\ Session' = Session]_vars

\* a refresh ran after a 401 had cleared the slot
C10_Witness ==
  /\ \E i \in InvIds : invs[i].outcome = "Expired"
  /\ \E i \in RefreshIds : invs[i].outcome = "MissingCredential"
  /\ storage = Null
  /\ currentTrack # Null

\* C11: when the load-time checks run with no stored credential and no
\* access_token in the fragment, they issue no request and start no fetch,
\* isAuthenticated is false, track is absent and the card shown is the connect
\* card.
C11_MountWithoutCredential ==
  [][RedirectCheck /\ storage = Null
       /\ ~(\E T \in Values : FragmentCarries(hash, T)) =>
        /\ nCpReq' = 0
        /\ nRpReq' = 0
        /\ InFlight' = {}
        /\ isAuthenticated' = FALSE
        /\ currentTrack' = Null
        /\ (isSDKLoaded' => View' = "connect")]_vars

\* mounted on a fragment without a usable token, nothing stored, no fetch
\* started, and the connect card is on screen
C11_Witness ==
  /\ phase = "mounted"
  /\ storage = Null
  /\ hash # <<>>
  /\ \A i \in InvIds : invs[i].pc = "idle"
  /\ View = "connect"

\* C12: a currently-playing status that is neither 204, success nor 401, and
\* any rejected request or failed body read, leave track, isPlaying,
\* isAuthenticated and the credential unchanged, and the invocation still
\* resolves (the failure ends in the catch block or falls through the ifs).
C12_TransientFailure ==
  [][\A i \in InvIds :
        /\ \A status \in Statuses :
             (status # 204 /\ status # 401 /\ ~(status >= 200 /\ status <= 299)
              /\ CpResponse(i, status)) =>
               /\ Session' = Session
               /\ invs'[i].pc = "done"
               /\ invs'[i].outcome = "OtherStatus"
        /\ (CpThrows(i) \/ CpJsonThrows(i) \/ RpThrows(i) \/ RpJsonThrows(i)) =>
               /\ Session' = Session
               /\ invs'[i].pc = "done"
               /\ invs'[i].outcome = "TransientFailure"
               /\ nErrors' = nErrors + 1]_vars

\* with a track on display and a credential stored, one invocation ended on an
\* unexpected status and another in the catch block
C12_Witness ==
  /\ currentTrack # Null
  /\ isAuthenticated
  /\ storage # Null
  /\ \E i, j \in InvIds :
       /\ invs[i].outcome = "OtherStatus"
       /\ invs[j].outcome = "TransientFailure"

\* C13: a credential written by the redirect check is removed from the slot
\* only by the 401 answer to a request that bore that same credential.
C13_ClearOnlyOwnCredential ==
  [][\A i \in InvIds :
        (invs[RedirectInv].pc # "idle" /\ storage # Null /\ CpResponse(i, 401))
          => invs[i].token = storage]_vars

\* C14: overlapping invocations do not abort one another (an invocation in
\* flight moves only by its own continuation and a resolved one stays
\* resolved), and track and isPlaying change only when some invocation applies
\* its outcome, which then writes both from that one outcome; so after all
\* have resolved the pair is the one written by the last update.
C14_LastResolvedWins ==
  [][/\ \A i \in InvIds : (i \in InFlight /\ invs'[i] # invs[i]) => Continue(i)
     /\ \A i \in InvIds : invs[i].pc = "done" => invs'[i] = invs[i]
     /\ \A i \in InvIds : \A data \in CpPayloads :
          CpJson(i, data) => Playback' = <<data.item, data.is_playing>>
     /\ \A i \in InvIds : \A data \in RpPayloads :
          (RpJson(i, data) /\ ~NoHistory(data)) =>
            Playback' = <<data.items[1], FALSE>>
     /\ Playback' # Playback =>
          \E i \in InvIds :
            \/ \E data \in CpPayloads : CpJson(i, data)
            \/ \E data \in RpPayloads : RpJson(i, data) /\ ~NoHistory(data)]_vars

\* the two mount-time invocations overlapped, both resolved with an update,
\* and the pair on display is the success branch's
C14_Witness ==
  /\ invs[StoredInv].outcome = "Playing"
  /\ invs[RedirectInv].outcome = "RecentlyPlayed"
  /\ currentTrack # Null
  /\ isPlaying

\* C15: a recently-played request is issued only by the continuation that
\* received 204 for the currently-playing request of the same invocation, one
\* request per such answer, and an invocation awaits its currently-playing
\* request only once.
C15_FallbackOnlyOn204 ==
  [][/\ nRpReq' # nRpReq =>
          /\ nRpReq' = nRpReq + 1
          /\ \E i \in InvIds : invs[i].pc = "cp" /\ invs'[i].pc = "rp"
     /\ \A i \in InvIds : (invs'[i].pc = "rp" /\ invs[i].pc # "rp") =>
          /\ invs[i].pc = "cp"
          /\ invs'[i].status = 204
          /\ nRpReq' = nRpReq + 1
     /\ \A i \in InvIds : (invs'[i].pc = "cp" /\ invs[i].pc # "cp") =>
          invs[i].pc = "idle"]_vars

\* one invocation is awaiting its recently-played request after a 204 while
\* another ended on a 401 without one
C15_Witness ==
  /\ nRpReq = 1
  /\ \E i, j \in InvIds :
       /\ invs[i].pc = "rp"
       /\ invs[i].status = 204
       /\ invs[j].outcome = "Expired"

\* C16: isAuthenticated goes from true to false only on a 401 answer to a
\* currently-playing request; every other continuation of an invocation, and
\* the start of a manual refresh, leave isAuthenticated and the credential
\* unchanged.
C16_OnlyExpiryLogsOut ==
  [][/\ (isAuthenticated /\ ~isAuthenticated') =>
          \E i \in InvIds : invs[i].pc = "cp" /\ CpResponse(i, 401)
     /\ \A i \in InvIds :
          (\/ \E status \in Statuses \ {401} : CpResponse(i, status)
           \/ \E data \in CpPayloads : CpJson(i, data)
           \/ \E status \in Statuses : RpResponse(i, status)
           \/ \E data \in RpPayloads : RpJson(i, data)
           \/ CpThrows(i) \/ CpJsonThrows(i) \/ RpThrows(i) \/ RpJsonThrows(i))
          => UNCHANGED <<isAuthenticated, storage>>
     /\ Refresh => UNCHANGED <<isAuthenticated, storage>>]_vars

\* the recently-played sub-call was refused and the session is still
\* authenticated with its credential
C16_Witness ==
  /\ isAuthenticated
  /\ storage # Null
  /\ \E i \in InvIds : invs[i].outcome = "HistoryNotOk"
  /\ \E i \in RefreshIds : invs[i].pc = "done"

\* C17: once the load-time checks have run, isAuthenticated is true exactly
\* when the credential slot holds a non-empty token.
C17_AuthenticatedIffCredential ==
  phase = "mounted" => (isAuthenticated <=> storage \in Tokens)

\* a manual refresh has resolved and the session is authenticated with a
\* stored token, after the other mount-time fetch had failed
C17_Witness ==
  /\ phase = "mounted"
  /\ isAuthenticated
  /\ storage \in Tokens
  /\ invs[3].pc = "done"
  /\ \E i \in {StoredInv, RedirectInv} : invs[i].outcome = "OtherStatus"

\* triggers that have occurred: the two mount effects and the refresh clicks
TriggersOccurred ==
  (IF phase \in {"storedChecked", "mounted"} THEN 1 ELSE 0)
    + (IF phase = "mounted" THEN 1 ELSE 0) + nRefresh

\* C18: the currently-playing requests issued never outnumber the triggers
\* that occurred, a request is issued only by a mount effect or a refresh
\* click, and no continuation of an invocation issues one.
C18_NoAutomaticRetry ==
  /\ [](nCpReq <= TriggersOccurred)
  /\ [][nCpReq' # nCpReq => (StoredCheck \/ RedirectCheck \/ Refresh)]_vars
  /\ [][\A i \in InvIds : Continue(i) => nCpReq' = nCpReq]_vars

\* a failed, an expired and an empty outcome have occurred, nothing is in
\* flight, and exactly the three triggers' requests were issued
C18_Witness ==
  /\ InFlight = {}
  /\ nCpReq = 3
  /\ TriggersOccurred = 3
  /\ \E i, j, k \in InvIds :
       /\ invs[i].outcome = "Playing"
       /\ invs[j].outcome \in {"TransientFailure", "Empty"}
       /\ invs[k].outcome = "Expired"

\* C19 (as stated): every request, the recently-played sub-call included,
\* bears the credential the slot holds when the request is issued.
C19_RequestsBearSlotCredential ==
  [][/\ \A i \in InvIds : (invs'[i].pc = "cp" /\ invs[i].pc = "idle") =>
          invs'[i].token = storage'
     /\ \A i \in InvIds : (invs'[i].pc = "rp" /\ invs[i].pc = "cp") =>
          invs'[i].token = storage']_vars

\* C19 (amended): a currently-playing request bears the credential the slot
\* holds when it is issued; the recently-played sub-call bears the credential
\* its invocation read at its start, whatever the slot holds by then.
C19_RequestsBearInvocationToken ==
  [][/\ \A i \in InvIds : (invs'[i].pc = "cp" /\ invs[i].pc = "idle") =>
          /\ invs'[i].token = storage'
          /\ nCpReq' = nCpReq + 1
     /\ \A i \in InvIds : (invs'[i].pc = "rp" /\ invs[i].pc = "cp") =>
          /\ invs'[i].token = invs[i].token
          /\ invs'[i].token \in Tokens]_vars

\* a recently-played request is pending that bears a token the slot no longer
\* holds
C19_Witness ==
  \E i \in InvIds : invs[i].pc = "rp" /\ invs[i].token # storage

\* both mount-time fetches await their currently-playing request
BothMountFetchesPending ==
  /\ phase = "mounted"
  /\ invs[StoredInv].pc = "cp"
  /\ invs[RedirectInv].pc = "cp"

\* the update an outcome emits, if it emits one
Emits(e) == e.kind = "playing" \/ (e.kind = "history" /\ ~NoHistory(e.rp))
Written(e) ==
  IF e.kind = "playing" THEN <<e.cp.item, e.cp.is_playing>>
  ELSE <<e.rp.items[1], FALSE>>

\* C20 (as stated): with both mount-time fetches in flight, the view state
\* after both have resolved is the same for either order of their outcomes.
C20_OrderIndependent ==
  BothMountFetchesPending =>
    \A e1, e2 \in Events :
      After(After(SessionRec, e1), e2) = After(After(SessionRec, e2), e1)

\* every continuation that ends an invocation changes the view state as After
\* says for the outcome it ends on
AfterMatchesCode ==
  [][\A i \in InvIds :
       /\ \A d \in CpPayloads : CpJson(i, d) =>
            SessionRec' = After(SessionRec, [kind |-> "playing", cp |-> d, rp |-> NoRp])
       /\ \A d \in RpPayloads : RpJson(i, d) =>
            SessionRec' = After(SessionRec, [kind |-> "history", cp |-> NoCp, rp |-> d])
       /\ CpResponse(i, 401) =>
            SessionRec' = After(SessionRec, [kind |-> "expired", cp |-> NoCp, rp |-> NoRp])
       /\ (\/ \E status \in Statuses \ {401} : CpResponse(i, status)
           \/ \E status \in Statuses : RpResponse(i, status)
           \/ CpThrows(i) \/ CpJsonThrows(i) \/ RpThrows(i) \/ RpJsonThrows(i)) =>
            SessionRec' = After(SessionRec, [kind |-> "none", cp |-> NoCp, rp |-> NoRp])]_vars

\* C20 (amended): with both mount-time fetches in flight, isAuthenticated and
\* the credential after both have resolved are the same for either order of
\* their outcomes, and track and isPlaying are those written by the outcome
\* that arrived last among those that emit an update.
C20_LastUpdateWins ==
  /\ AfterMatchesCode
  /\ [](BothMountFetchesPending =>
         \A e1, e2 \in Events :
           LET a == After(After(SessionRec, e1), e2)
               b == After(After(SessionRec, e2), e1)
           IN /\ a.isAuthenticated = b.isAuthenticated
              /\ a.storage = b.storage
              /\ <<a.currentTrack, a.isPlaying>> =
                   IF Emits(e2) THEN Written(e2)
                   ELSE IF Emits(e1) THEN Written(e1)
                   ELSE Playback)

\* both mount-time fetches resolved with different updates and the one on
\* display is the redirect fetch's
C20_Witness ==
  /\ invs[StoredInv].outcome = "RecentlyPlayed"
  /\ invs[RedirectInv].outcome = "Playing"
  /\ \A i \in RefreshIds : invs[i].pc = "idle"
  /\ currentTrack # Null
  /\ isPlaying
====
